---------------------------- MODULE Spec2Model ----------------------------
(***************************************************************************)
(* The request handlers of the Telangana Dental Council registration       *)
(* backend (src/src/controllers/userController.js): registerUser,          *)
(* forgotPassword, resetPassword and applyNOC, each split at its awaits.    *)
(* One action is one resumption of a handler: the awaited operation takes   *)
(* effect and the handler runs on to its next await or to its response.     *)
(* Handlers of different requests interleave at these points, as they do    *)
(* on the Node event loop.                                                  *)
(*                                                                          *)
(* Strings whose characters the code inspects (file names, qualification    *)
(* years, passwords) are sequences of one-character strings.  A form is a   *)
(* function whose domain is the set of keys present in the object, and so  *)
(* is a stored document: an undefined field is a key outside the domain.    *)
(*                                                                          *)
(* The record store and the local disk are taken to be available: the only  *)
(* store failure modelled is the unique-index violation on insert.  An      *)
(* upload to Cloudinary may be rejected and the mail sender may fail, on    *)
(* any call.  The clock advances between any two steps.                     *)
(***************************************************************************)
EXTENDS Integers, Sequences, FiniteSets, TLC

VARIABLES
    inbox,       \* the register / NOC requests that will arrive, by request number
    reqs,        \* request number -> the handler's position and locals
    users,       \* User collection: sequence of documents, _id = position
    nocs,        \* NOC collection: sequence of documents
    folders,     \* directories made under uploads/
    localFiles,  \* files written under uploads/
    cloudFiles,  \* objects uploaded to Cloudinary
    now,         \* Date.now()
    nextToken,   \* the next value crypto.randomBytes yields
    known        \* reset tokens a client can present

vars == <<inbox, reqs, users, nocs, folders, localFiles, cloudFiles, now, nextToken, known>>

Max(S) == CHOOSE x \in S : \A y \in S : y <= x

-----------------------------------------------------------------------------
(* Strings                                                                 *)
(*                                                                         *)
(* A string is a sequence of UTF-16 code units, which is what the regular  *)
(* expressions of the handlers (none has the u flag) read.  An ASCII code  *)
(* unit is the one-character string itself.  A string of this notation     *)
(* cannot carry a character outside ASCII, so such a code unit is written  *)
(* by its name, "U+00A0" for the no-break space, "U+00E9" for e acute.     *)
(* The operators below read every such string, but for ToLowerChar, which  *)
(* is toLowerCase on ASCII and on white space only.                        *)

UpperCase ==
    <<"A", "B", "C", "D", "E", "F", "G", "H", "I", "J", "K", "L", "M",
      "N", "O", "P", "Q", "R", "S", "T", "U", "V", "W", "X", "Y", "Z">>

LowerCase ==
    <<"a", "b", "c", "d", "e", "f", "g", "h", "i", "j", "k", "l", "m",
      "n", "o", "p", "q", "r", "s", "t", "u", "v", "w", "x", "y", "z">>

\* String.prototype.toLowerCase on one ASCII or white space character: the
\* letters A to Z are lowered, every other one is its own lower case.  The
\* case pairs outside ASCII (U+00C9 to U+00E9, U+212A to "k") are not tabled:
\* none of them lowers to ".", "p", "d" or "f", the characters the extension
\* test compares with.
ToLowerChar(c) ==
    IF \E k \in DOMAIN UpperCase : UpperCase[k] = c
    THEN LowerCase[CHOOSE k \in DOMAIN UpperCase : UpperCase[k] = c]
    ELSE c

ToLowerCase(s) == [i \in 1..Len(s) |-> ToLowerChar(s[i])]

\* path.extname (posix): the text from the last "." of the last path segment,
\* or "" when that segment has no "." or only a leading one (or is "..").
ExtName(p) ==
    LET nonSlash == {i \in 1..Len(p) : p[i] # "/"}
    IN  IF nonSlash = {} THEN <<>>
        ELSE LET end == Max(nonSlash)
                 slashes == {i \in 1..end : p[i] = "/"}
                 startPart == IF slashes = {} THEN 1 ELSE Max(slashes) + 1
                 dots == {i \in startPart..end : p[i] = "."}
             IN  IF dots = {} THEN <<>>
                 ELSE LET startDot == Max(dots)
                      IN  IF \/ startDot = startPart
                             \/ /\ p[startPart] = "."
                                /\ startDot = end
                                /\ startDot = startPart + 1
                          THEN <<>>
                          ELSE SubSeq(p, startDot, end)

Digits == {"0", "1", "2", "3", "4", "5", "6", "7", "8", "9"}

\* [a-zA-Z0-9_]
WordChars ==
    {LowerCase[k] : k \in DOMAIN LowerCase} \cup {UpperCase[k] : k \in DOMAIN UpperCase}
    \cup Digits \cup {"_"}

\* The white space of \s outside ASCII, each code unit by its name
NonAsciiWhiteSpace ==
    {"U+00A0", "U+1680", "U+2000", "U+2001", "U+2002", "U+2003", "U+2004",
     "U+2005", "U+2006", "U+2007", "U+2008", "U+2009", "U+200A", "U+2028",
     "U+2029", "U+202F", "U+205F", "U+3000", "U+FEFF"}

\* \s, 25 code units: blank, tab, line feed, vertical tab (U+000B, written as
\* the character itself), form feed, carriage return, and those outside ASCII
WhiteSpace == {" ", "\t", "\n", "", "\f", "\r"} \cup NonAsciiWhiteSpace

\* s.replace(/[^a-zA-Z0-9_]/g, '')
StripNonWord(s) == SelectSeq(s, LAMBDA c : c \in WordChars)

\* s.replace(/<spaces>+/g, '_'): every run of the given characters becomes one "_"
ReplaceRuns(s, spaces) ==
    LET keep == {i \in 1..Len(s) : s[i] \notin spaces \/ i = 1 \/ s[i - 1] \notin spaces}
        at(k) == CHOOSE i \in keep : Cardinality({j \in keep : j < i}) = k - 1
    IN  [k \in 1..Cardinality(keep) |-> IF s[at(k)] \in spaces THEN "_" ELSE s[at(k)]]

\* parts.join('_')
RECURSIVE Join(_)
Join(parts) ==
    IF parts = <<>> THEN <<>>
    ELSE IF Len(parts) = 1 THEN parts[1]
    ELSE parts[1] \o <<"_">> \o Join(Tail(parts))

DotPdf == <<".", "p", "d", "f">>

\* faulty variant: the extension test accepts every file
IsPdfAcceptsAll(originalname) == TRUE

\* registerUser's test of one file: extension !== '.pdf' rejects
IsPdf(originalname) == ToLowerCase(ExtName(originalname)) = DotPdf

\* /^(0[1-9]|1[0-2])\/\d{4}$/.test(s)
MmYYYYRegexTest(s) ==
    /\ Len(s) = 7
    /\ \/ s[1] = "0" /\ s[2] \in Digits \ {"0"}
       \/ s[1] = "1" /\ s[2] \in {"0", "1", "2"}
    /\ s[3] = "/"
    /\ \A i \in 4..7 : s[i] \in Digits

-----------------------------------------------------------------------------
(* Forms *)

RequiredFields ==
    {"f_name", "l_name", "father_name", "mother_name", "place", "dob",
     "category", "address", "pan_number", "aadhaar_number", "regtype"}

\* JavaScript truthiness of a string-valued key: present and not ""
Truthy(form, key) == key \in DOMAIN form /\ form[key] # <<>>

\* faulty variant: regtype is left out of the presence test
MissingRequiredForgetsRegtype(form) ==
    \E key \in RequiredFields \ {"regtype"} : ~Truthy(form, key)

\* !f_name || !l_name || ... || !regtype
MissingRequired(form) == \E key \in RequiredFields : ~Truthy(form, key)

BadYear(form, key) == Truthy(form, key) /\ ~MmYYYYRegexTest(form[key])

MIN_PASSWORD_LENGTH == 8

\* 15 * 60 * 1000
RESET_WINDOW == 15 * 60 * 1000

\* [f_name, m_name, l_name].filter(Boolean)
NameParts(doc) ==
    SelectSeq(<<"f_name", "m_name", "l_name">>, LAMBDA key : Truthy(doc, key))

\* [...].join('_')
FullName(doc) == Join([i \in DOMAIN NameParts(doc) |-> doc[NameParts(doc)[i]]])

\* registerUser, lines 77-78: strip, then turn runs of blanks into "_"
RegSafeName(form) == ReplaceRuns(StripNonWord(FullName(form)), {" "})

\* applyNOC, lines 310-311: turn runs of white space into "_", then strip
NocSafeName(user) == StripNonWord(ReplaceRuns(FullName(user), WhiteSpace))

-----------------------------------------------------------------------------
(* Record store *)

\* seeders/seedNationalities.js: the collection after deleteMany + insertMany
nationalities ==
    <<"Natural born Indian Citizen", "Natural born British Subject",
      "British Subject if Indian Domicile", "Naturalized Indian Citizen",
      "Subject of a Foreign Government">>

NationalityIds == DOMAIN nationalities

\* the pre-seeded registration categories
RegCategoryIds == {1, 2}

\* Model.findById(id): a document or null
FindById(ids, id) == id \in ids

\* User.findOne({ [key]: value }): the matching documents
FindUsers(store, key, value) ==
    {i \in DOMAIN store : key \in DOMAIN store[i] /\ store[i][key] = value}

\* faulty variant: the mobile lookup compares the email field
FindByMobileWrongField(store, mobile_number) == FindUsers(store, "email", mobile_number)

\* User.findOne({ mobile_number })
FindByMobile(store, mobile_number) == FindUsers(store, "mobile_number", mobile_number)

\* User.findOne({ email })
FindByEmail(store, email) == FindUsers(store, "email", email)

\* faulty variant: the collection carries no unique index
DuplicateKeyNoIndex(store, doc) == FALSE

\* the unique indexes on email and mobile_number: E11000 on insert
DuplicateKey(store, doc) ==
    \/ FindUsers(store, "email", doc["email"]) # {}
    \/ FindUsers(store, "mobile_number", doc["mobile_number"]) # {}

\* the pre-save hook: bcrypt hash of a modified password
BcryptHash(password) == <<"bcrypt", password>>

-----------------------------------------------------------------------------
(* registerUser *)

Respond(r, code) == [reqs EXCEPT ![r].pc = "done", ![r].status = code]

Arrives(r, kind) ==
    /\ r \in DOMAIN inbox
    /\ inbox[r].kind = kind
    /\ reqs[r].pc = "idle"
    /\ \A q \in 1..(r - 1) : reqs[q].pc # "idle"

\* one stored file, <timestamp>-<fieldName>.pdf in its folder, and which request
\* submitted it under which name
StoredFile(r, folder, file) ==
    [folder |-> folder, timestamp |-> now, fieldName |-> file.fieldName,
     req |-> r, originalname |-> file.originalname]

SamePath(a, b) ==
    a.folder = b.folder /\ a.timestamp = b.timestamp /\ a.fieldName = b.fieldName

\* fs.writeFileSync: a file already at the path is replaced
WriteFile(disk, file) == {old \in disk : ~SamePath(old, file)} \cup {file}

\* the body of the for-loop up to its await, for the i-th entry of fileBufferMap;
\* past the last entry the handler goes on to user.save()
RegLoop(r, i) ==
    LET files == inbox[r].files
    IN  IF i > Len(files)
        THEN /\ reqs' = [reqs EXCEPT ![r].pc = "save"]
             /\ UNCHANGED localFiles
        ELSE IF ~IsPdf(files[i].originalname)
        THEN /\ reqs' = Respond(r, 400)
             /\ UNCHANGED localFiles
        ELSE LET file == StoredFile(r, RegSafeName(inbox[r].body), files[i])
             IN  /\ reqs' = [reqs EXCEPT ![r].pc = "upload", ![r].idx = i,
                                          ![r].saved = Append(@, file)]
                 /\ localFiles' = WriteFile(localFiles, file)

\* lines 24-60: destructuring, presence and year-format tests
RegisterUser(r) ==
    /\ Arrives(r, "register")
    /\ LET form == inbox[r].body
       IN  reqs' = IF \/ MissingRequired(form)
                      \/ BadYear(form, "bds_qualification_year")
                      \/ BadYear(form, "mds_qualification_year")
                   THEN [Respond(r, 400) EXCEPT ![r].storeSize = Len(users)]
                   ELSE [reqs EXCEPT ![r].pc = "findRegCategory",
                                     ![r].storeSize = Len(users)]
    /\ UNCHANGED <<inbox, users, nocs, folders, localFiles, cloudFiles, now, nextToken, known>>

\* lines 60-63
RegFindRegCategory(r) ==
    /\ reqs[r].pc = "findRegCategory"
    /\ reqs' = IF FindById(RegCategoryIds, inbox[r].body["regcategory_id"])
               THEN [reqs EXCEPT ![r].pc = "findNationality"]
               ELSE Respond(r, 400)
    /\ UNCHANGED <<inbox, users, nocs, folders, localFiles, cloudFiles, now, nextToken, known>>

\* lines 63-66
RegFindNationality(r) ==
    /\ reqs[r].pc = "findNationality"
    /\ reqs' = IF FindById(NationalityIds, inbox[r].body["nationality_id"])
               THEN [reqs EXCEPT ![r].pc = "findEmail"]
               ELSE Respond(r, 400)
    /\ UNCHANGED <<inbox, users, nocs, folders, localFiles, cloudFiles, now, nextToken, known>>

\* lines 66-69
RegFindEmail(r) ==
    /\ reqs[r].pc = "findEmail"
    /\ reqs' = IF FindByEmail(users, inbox[r].body["email"]) # {}
               THEN Respond(r, 409)
               ELSE [reqs EXCEPT ![r].pc = "findMobile"]
    /\ UNCHANGED <<inbox, users, nocs, folders, localFiles, cloudFiles, now, nextToken, known>>

\* lines 69-99: the mobile lookup, the password test (password.length of an
\* absent password throws, caught as 500), and the first turn of the file loop
RegFindMobile(r) ==
    /\ reqs[r].pc = "findMobile"
    /\ LET form == inbox[r].body
       IN  IF FindByMobile(users, form["mobile_number"]) # {}
           THEN reqs' = Respond(r, 409) /\ UNCHANGED <<folders, localFiles>>
           ELSE IF "password" \notin DOMAIN form
           THEN reqs' = Respond(r, 500) /\ UNCHANGED <<folders, localFiles>>
           ELSE IF Len(form["password"]) < MIN_PASSWORD_LENGTH
           THEN reqs' = Respond(r, 400) /\ UNCHANGED <<folders, localFiles>>
           ELSE /\ folders' = folders \cup {RegSafeName(form)}
                /\ RegLoop(r, 1)
    /\ UNCHANGED <<inbox, users, nocs, cloudFiles, now, nextToken, known>>

\* lines 99-107: the upload returns, its URL replaces the form field, next turn;
\* or the upload is rejected, caught as 500
RegUpload(r) ==
    /\ reqs[r].pc = "upload"
    /\ \E uploaded \in BOOLEAN :
         IF uploaded
         THEN /\ cloudFiles' = cloudFiles \cup {reqs[r].saved[reqs[r].idx]}
              /\ RegLoop(r, reqs[r].idx + 1)
         ELSE /\ reqs' = Respond(r, 500)
              /\ UNCHANGED <<cloudFiles, localFiles>>
    /\ UNCHANGED <<inbox, users, nocs, folders, now, nextToken, known>>

\* new User(req.cleanedFormData): the form, every uploaded field holding its
\* URL; the pre-save hook hashes the password
NewUser(r, id) ==
    LET form == inbox[r].body
        saved == reqs[r].saved
        fields == {saved[i].fieldName : i \in DOMAIN saved}
    IN  [key \in {"_id"} \cup DOMAIN form \cup fields |->
            CASE key = "_id" -> id
              [] key = "password" -> BcryptHash(form["password"])
              [] key \in fields -> saved[CHOOSE i \in DOMAIN saved : saved[i].fieldName = key]
              [] OTHER -> form[key]]

\* lines 107-110: user.save(); a duplicate key throws, caught as 500
RegSave(r) ==
    /\ reqs[r].pc = "save"
    /\ LET doc == NewUser(r, Len(users) + 1)
       IN  IF DuplicateKey(users, doc)
           THEN reqs' = Respond(r, 500) /\ UNCHANGED users
           ELSE /\ users' = Append(users, doc)
                /\ reqs' = [reqs EXCEPT ![r].pc = "sendEmail", ![r].userId = doc["_id"]]
    /\ UNCHANGED <<inbox, nocs, folders, localFiles, cloudFiles, now, nextToken, known>>

\* lines 110-138: the welcome mail is awaited inside the try block
RegSendEmail(r) ==
    /\ reqs[r].pc = "sendEmail"
    /\ \E sent \in BOOLEAN : reqs' = Respond(r, IF sent THEN 201 ELSE 500)
    /\ UNCHANGED <<inbox, users, nocs, folders, localFiles, cloudFiles, now, nextToken, known>>

\* the instants the clock is observed at: the start, and the first millisecond
\* after the expiry of a reset token issued at the start
Instants == {0, RESET_WINDOW + 1}

\* time passes between two steps of the handlers
Tick ==
    /\ \E t \in Instants : t > now /\ now' = t
    /\ UNCHANGED <<inbox, reqs, users, nocs, folders, localFiles, cloudFiles, nextToken, known>>

NextRegister ==
    \/ \E r \in DOMAIN reqs : RegisterUser(r)
    \/ \E r \in DOMAIN reqs : RegFindRegCategory(r)
    \/ \E r \in DOMAIN reqs : RegFindNationality(r)
    \/ \E r \in DOMAIN reqs : RegFindEmail(r)
    \/ \E r \in DOMAIN reqs : RegFindMobile(r)
    \/ \E r \in DOMAIN reqs : RegUpload(r)
    \/ \E r \in DOMAIN reqs : RegSave(r)
    \/ \E r \in DOMAIN reqs : RegSendEmail(r)
    \/ Tick

-----------------------------------------------------------------------------
(* The registration requests that arrive *)

MaxFiles == 2
MaxRegRequests == 2

Text == <<"A", " ", "b", ".">>
Pdf == <<"a", ".", "p", "d", "f">>
UpperPdf == <<"B", ".", "P", "D", "F">>
Txt == <<"c", ".", "t", "x", "t">>
FileNames == {Pdf, UpperPdf, Txt, DotPdf}

UploadFields ==
    <<"aadhaar_upload", "pan_upload", "bds_certificate_upload", "mds_certificate_upload">>

\* fileBufferMap, in the order Object.entries yields its entries
FileMaps(names, n) ==
    UNION {[1..k -> names] : k \in 0..n}

FileBufferMap(chosen) ==
    [i \in DOMAIN chosen |-> [fieldName |-> UploadFields[i], originalname |-> chosen[i]]]

Optional(key, choice) == IF choice = <<>> THEN <<>> ELSE key :> choice[1]

Emails == {"asha@tdc.in", "ravi@tdc.in"}
Mobiles == {"9000000001", "9000000002"}
Password7 == <<"s", "e", "c", "r", "e", "t", "7">>
Password8 == <<"s", "e", "c", "r", "e", "t", "8", "8">>
GoodYear == <<"0", "4", "/", "2", "0", "2", "0">>
Month13 == <<"1", "3", "/", "2", "0", "2", "0">>
YearChoices == {<<>>, <<GoodYear>>, <<Month13>>}
PasswordChoices == {<<>>, <<Password7>>, <<Password8>>}
MissingChoices == {{}} \cup {{key} : key \in RequiredFields}

\* cleanedFormData: the personal fields but for the missing ones (absent, or
\* present and empty), the references, the contact fields and the options
CleanedFormData(missing, blank, regcat, nat, email, mobile, password, bds, mds) ==
    [key \in (IF blank THEN RequiredFields ELSE RequiredFields \ missing) |->
        IF key \in missing THEN <<>> ELSE Text]
    @@ ("regcategory_id" :> regcat) @@ ("nationality_id" :> nat)
    @@ ("email" :> email) @@ ("mobile_number" :> mobile)
    @@ Optional("password", password)
    @@ Optional("bds_qualification_year", bds)
    @@ Optional("mds_qualification_year", mds)

RegisterRequest(body, chosen) ==
    [kind |-> "register", body |-> body, files |-> FileBufferMap(chosen)]

\* one request to an empty store: a form of any shape with or without a file,
\* or a form that passes every test with any files
AnyRegisterRequests ==
    {RegisterRequest(
        CleanedFormData(missing, blank, regcat, nat, "asha@tdc.in", "9000000001",
                        password, bds, mds), chosen) :
        missing \in MissingChoices, blank \in BOOLEAN,
        regcat \in {1, Max(RegCategoryIds) + 1},
        nat \in {1, Max(NationalityIds) + 1},
        password \in PasswordChoices, bds \in YearChoices, mds \in YearChoices,
        chosen \in FileMaps({Pdf}, 1)}
    \cup
    {RegisterRequest(
        CleanedFormData({}, FALSE, 1, 1, "asha@tdc.in", "9000000001",
                        <<Password8>>, <<GoodYear>>, <<>>), chosen) :
        chosen \in FileMaps(FileNames, MaxFiles)}

\* well-formed requests that differ in what they can collide on
RacingRegisterRequests(emails, mobiles) ==
    {RegisterRequest(
        CleanedFormData({}, FALSE, 1, 1, email, mobile, <<Password8>>, <<>>, <<>>),
        chosen) :
        email \in emails, mobile \in mobiles, chosen \in FileMaps({Pdf}, 1)}

\* n overlapping requests: the first is asha's, each later one carries her email
\* or another and her mobile number or another
RacingInboxes(n) ==
    {<<first>> \o rest :
        first \in RacingRegisterRequests({"asha@tdc.in"}, {"9000000001"}),
        rest \in [1..(n - 1) -> RacingRegisterRequests(Emails, Mobiles)]}

NewRequest ==
    [pc |-> "idle", status |-> 0, idx |-> 0, saved |-> <<>>, userId |-> 0, nocId |-> 0,
     storeSize |-> 0]

InitStore ==
    /\ users = <<>>
    /\ nocs = <<>>
    /\ folders = {}
    /\ localFiles = {}
    /\ cloudFiles = {}
    /\ now = 0
    /\ nextToken = 1
    /\ known = {}

InitRegister ==
    /\ inbox \in [1..1 -> AnyRegisterRequests]
                \cup UNION {RacingInboxes(n) : n \in 2..MaxRegRequests}
    /\ reqs = [r \in DOMAIN inbox |-> NewRequest]
    /\ InitStore

SpecRegister == InitRegister /\ [][NextRegister]_vars

-----------------------------------------------------------------------------
(* forgotPassword and resetPassword *)

MaxAuthRequests == 3

\* crypto.createHash('sha256').update(token).digest('hex')
Sha256(token) == <<"sha256", token>>

\* document.key = value; a later save writes the key
SetField(doc, key, value) == (key :> value) @@ doc

\* document.key = undefined; a later save unsets the key
UnsetField(doc, key) == [k \in DOMAIN doc \ {key} |-> doc[k]]

\* lines 202-203: the values forgotPassword assigns to the document in hand
ResetFields(resetToken, at) ==
    ("resetPasswordToken" :> Sha256(resetToken))
    @@ ("resetPasswordExpire" :> at + RESET_WINDOW)

\* The paths the assignments of lines 202-203 mark as modified on the Mongoose
\* document: Document#set marks a path only when the value assigned differs
\* from the value the document was loaded with (an equal value leaves the path
\* unmodified, whether the schema types it as a Date or as a Number).
ModifiedPaths(loaded, assigned) ==
    {key \in DOMAIN assigned : key \notin DOMAIN loaded \/ loaded[key] # assigned[key]}

\* document.save() of a loaded document: Mongoose sends an update of the
\* modified paths alone (the document's delta), so these are written to the
\* stored document and its other paths stay as the store holds them.
SavePaths(stored, assigned, paths) ==
    [key \in DOMAIN stored \cup paths |->
        IF key \in paths THEN assigned[key] ELSE stored[key]]

\* faulty variant: the rollback keeps the stored hash and expiry
ClearResetTokenKeeps(doc) == doc

\* lines 229-231 and 251-253: both reset fields set to undefined and saved
ClearResetToken(doc) ==
    UnsetField(UnsetField(doc, "resetPasswordToken"), "resetPasswordExpire")

\* lines 241-244: findOne({ resetPasswordToken, resetPasswordExpire: { $gt: now } })
FindByResetToken(store, hashedToken, at) ==
    {i \in FindUsers(store, "resetPasswordToken", hashedToken) :
        /\ "resetPasswordExpire" \in DOMAIN store[i]
        /\ store[i]["resetPasswordExpire"] > at}

NoToken == 0
NewPassword == <<"c", "h", "a", "n", "g", "e", "d", "1">>

AuthRequest ==
    [pc |-> "idle", status |-> 0, kind |-> "none", userId |-> 0, email |-> "",
     token |-> NoToken, password |-> <<>>, at |-> 0, modified |-> {}]

\* the response of forgotPassword or resetPassword; the handler's locals are
\* gone, what stays is which token the request drew or presented and the instant
\* it read from the clock
Answer(r, code) ==
    [reqs EXCEPT ![r] = [AuthRequest EXCEPT
                            !.pc = "done", !.status = code, !.kind = reqs[r].kind,
                            !.token = reqs[r].token, !.at = reqs[r].at]]

\* lines 196-198: the email is read from the body and the lookup is started
ForgotPassword(r, email) ==
    /\ reqs[r].pc = "idle"
    /\ \A q \in 1..(r - 1) : reqs[q].pc # "idle"
    /\ reqs' = [reqs EXCEPT ![r].kind = "forgot", ![r].pc = "findUser", ![r].email = email]
    /\ UNCHANGED <<inbox, users, nocs, folders, localFiles, cloudFiles, now, nextToken, known>>

\* lines 198-205: the lookup returns; 404, or the hash and the expiry are assigned
\* to the document it returned and the save is started.  An expiry equal to the
\* one the document was loaded with leaves that path unmodified.
ForgotFindUser(r) ==
    /\ reqs[r].kind = "forgot" /\ reqs[r].pc = "findUser"
    /\ LET found == FindByEmail(users, reqs[r].email)
       IN  IF found = {}
           THEN /\ reqs' = Answer(r, 404)
                /\ UNCHANGED nextToken
           ELSE /\ reqs' = [reqs EXCEPT ![r].pc = "saveToken",
                                        ![r].userId = CHOOSE i \in found : TRUE,
                                        ![r].token = nextToken,
                                        ![r].at = now,
                                        ![r].modified =
                                            ModifiedPaths(users[CHOOSE i \in found : TRUE],
                                                          ResetFields(nextToken, now))]
                /\ nextToken' = nextToken + 1
    /\ UNCHANGED <<inbox, users, nocs, folders, localFiles, cloudFiles, now, known>>

\* lines 205-216: the save takes effect and sendEmail is called with the mail
\* that carries the token.  From here on the recipient can present the token:
\* the mail may reach them while sendEmail is pending, and also when sendEmail
\* goes on to reject.  Before, the 20 random bytes are known to the handler alone.
ForgotSaveToken(r) ==
    /\ reqs[r].pc = "saveToken"
    /\ users' = [users EXCEPT ![reqs[r].userId] =
                    SavePaths(@, ResetFields(reqs[r].token, reqs[r].at), reqs[r].modified)]
    /\ reqs' = [reqs EXCEPT ![r].pc = "sendEmail"]
    /\ known' = known \cup {reqs[r].token}
    /\ UNCHANGED <<inbox, nocs, folders, localFiles, cloudFiles, now, nextToken>>

\* lines 216-231: sendEmail resolves and the link is answered, or it rejects and
\* the handler sets both fields to undefined and starts the save
ForgotSendEmail(r) ==
    /\ reqs[r].pc = "sendEmail"
    /\ \E sent \in BOOLEAN :
         reqs' = IF sent THEN Answer(r, 200) ELSE [reqs EXCEPT ![r].pc = "clearToken"]
    /\ UNCHANGED <<inbox, users, nocs, folders, localFiles, cloudFiles, now, nextToken, known>>

\* lines 231-234: the rollback save takes effect, then 500
ForgotClearToken(r) ==
    /\ reqs[r].pc = "clearToken"
    /\ users' = [users EXCEPT ![reqs[r].userId] = ClearResetToken(@)]
    /\ reqs' = Answer(r, 500)
    /\ UNCHANGED <<inbox, nocs, folders, localFiles, cloudFiles, now, nextToken, known>>

\* lines 238-244: the token is hashed, the query is built with the Date.now() of
\* this instant, and the lookup is started
ResetPassword(r, token, password) ==
    /\ reqs[r].pc = "idle"
    /\ \A q \in 1..(r - 1) : reqs[q].pc # "idle"
    /\ reqs' = [reqs EXCEPT ![r].kind = "reset", ![r].pc = "findUser",
                            ![r].token = token, ![r].password = password,
                            ![r].at = now]
    /\ UNCHANGED <<inbox, users, nocs, folders, localFiles, cloudFiles, now, nextToken, known>>

\* lines 241-253: the lookup returns what the store holds now for the query built
\* on arrival; 400, or the handler sets the password, clears the reset fields and
\* starts the save
ResetFindUser(r) ==
    /\ reqs[r].kind = "reset" /\ reqs[r].pc = "findUser"
    /\ LET found == FindByResetToken(users, Sha256(reqs[r].token), reqs[r].at)
       IN  reqs' = IF found = {}
                   THEN Answer(r, 400)
                   ELSE [reqs EXCEPT ![r].pc = "saveReset",
                                     ![r].userId = CHOOSE i \in found : TRUE]
    /\ UNCHANGED <<inbox, users, nocs, folders, localFiles, cloudFiles, now, nextToken, known>>

\* lines 253-262: the save writes the modified paths of the document in hand
ResetSave(r) ==
    /\ reqs[r].pc = "saveReset"
    /\ users' = [users EXCEPT ![reqs[r].userId] =
                    ClearResetToken(SetField(@, "password", BcryptHash(reqs[r].password)))]
    /\ reqs' = Answer(r, 200)
    /\ UNCHANGED <<inbox, nocs, folders, localFiles, cloudFiles, now, nextToken, known>>

\* the email forgotPassword is asked about: the requests that meet on one
\* document are those for one user
ForgotEmails == {"asha@tdc.in"}

NextAuth ==
    \/ \E r \in DOMAIN reqs, email \in ForgotEmails : ForgotPassword(r, email)
    \/ \E r \in DOMAIN reqs : ForgotFindUser(r)
    \/ \E r \in DOMAIN reqs : ForgotSaveToken(r)
    \/ \E r \in DOMAIN reqs : ForgotSendEmail(r)
    \/ \E r \in DOMAIN reqs : ForgotClearToken(r)
    \/ \E r \in DOMAIN reqs, token \in known : ResetPassword(r, token, NewPassword)
    \/ \E r \in DOMAIN reqs : ResetFindUser(r)
    \/ \E r \in DOMAIN reqs : ResetSave(r)
    \/ Tick

\* the document registerUser stores for a well-formed form without uploads
RegisteredUser(id, email, mobile) ==
    SetField(SetField(CleanedFormData({}, FALSE, 1, 1, email, mobile, <<Password8>>,
                                      <<>>, <<>>),
                      "password", BcryptHash(Password8)),
             "_id", id)

\* the document of a user to whom a forgotPassword, answered 200, sent the token
\* at the given instant
WithPendingToken(doc, resetToken, at) ==
    SavePaths(doc, ResetFields(resetToken, at), DOMAIN ResetFields(resetToken, at))

\* two users have registered; no request is in flight
InitAuth ==
    /\ inbox = <<>>
    /\ reqs = [r \in 1..MaxAuthRequests |-> AuthRequest]
    /\ users = <<RegisteredUser(1, "asha@tdc.in", "9000000001"),
                 RegisteredUser(2, "ravi@tdc.in", "9000000002")>>
    /\ nocs = <<>>
    /\ folders = {}
    /\ localFiles = {}
    /\ cloudFiles = {}
    /\ now = 0
    /\ nextToken = 1
    /\ known = {}

\* the same, but for asha, who holds the token of a forgotPassword answered 200
\* at the start
InitAuthPending ==
    /\ inbox = <<>>
    /\ reqs = [r \in 1..MaxAuthRequests |-> AuthRequest]
    /\ users = <<WithPendingToken(RegisteredUser(1, "asha@tdc.in", "9000000001"), 1, 0),
                 RegisteredUser(2, "ravi@tdc.in", "9000000002")>>
    /\ nocs = <<>>
    /\ folders = {}
    /\ localFiles = {}
    /\ cloudFiles = {}
    /\ now = 0
    /\ nextToken = 2
    /\ known = {1}

SpecAuth == InitAuth /\ [][NextAuth]_vars

SpecAuthPending == InitAuthPending /\ [][NextAuth]_vars

-----------------------------------------------------------------------------
(* applyNOC *)

MaxNocRequests == 1

requiredFiles == <<"tdc_reg_certificate_upload", "aadhaar_upload">>

\* req.fileBufferMap[field]
FileOf(fileBufferMap, field) ==
    {i \in DOMAIN fileBufferMap : fileBufferMap[i].fieldName = field}

\* faulty variant: only the first required file is looked for
MissingRequiredFileChecksFirstOnly(fileBufferMap) ==
    FileOf(fileBufferMap, requiredFiles[1]) = {}

\* lines 299-304: some required field has no file
MissingRequiredFile(fileBufferMap) ==
    \E k \in DOMAIN requiredFiles : FileOf(fileBufferMap, requiredFiles[k]) = {}

\* the loop up to its await: the upload of the i-th entry is started under its
\* file name, or, past the last entry, noc.save()
NocLoop(r, i) ==
    IF i > Len(inbox[r].files)
    THEN reqs' = [reqs EXCEPT ![r].pc = "saveNoc"]
    ELSE reqs' = [reqs EXCEPT
                    ![r].pc = "uploadNoc", ![r].idx = i,
                    ![r].saved = Append(@, StoredFile(r, NocSafeName(users[inbox[r].user]),
                                                      inbox[r].files[i]))]

\* lines 294-318
ApplyNOC(r) ==
    /\ Arrives(r, "noc")
    /\ LET form == inbox[r].body
       IN  IF MissingRequiredFile(inbox[r].files)
           THEN reqs' = Respond(r, 400)
           ELSE IF ~Truthy(form, "dental_council_name") \/ ~Truthy(form, "postal_address")
           THEN reqs' = Respond(r, 400)
           ELSE NocLoop(r, 1)
    /\ UNCHANGED <<inbox, users, nocs, folders, localFiles, cloudFiles, now, nextToken, known>>

\* lines 318-325: the upload returns, the folder is made and the local copy
\* written, next turn; or the upload is rejected, caught as 500
NocUpload(r) ==
    /\ reqs[r].pc = "uploadNoc"
    /\ \E uploaded \in BOOLEAN :
         IF uploaded
         THEN /\ LET file == reqs[r].saved[reqs[r].idx]
                 IN  /\ cloudFiles' = cloudFiles \cup {file}
                     /\ folders' = folders \cup {file.folder}
                     /\ localFiles' = WriteFile(localFiles, file)
              /\ NocLoop(r, reqs[r].idx + 1)
         ELSE /\ reqs' = Respond(r, 500)
              /\ UNCHANGED <<cloudFiles, folders, localFiles>>
    /\ UNCHANGED <<inbox, users, nocs, now, nextToken, known>>

\* new NOC({ user_id, dental_council_name, postal_address, ...savedFiles })
NewNoc(r) ==
    LET form == inbox[r].body
        saved == reqs[r].saved
        fields == {saved[i].fieldName : i \in DOMAIN saved}
    IN  [key \in {"user_id", "dental_council_name", "postal_address"} \cup fields |->
            CASE key = "user_id" -> users[inbox[r].user]["_id"]
              [] key \in fields -> saved[CHOOSE i \in DOMAIN saved : saved[i].fieldName = key]
              [] OTHER -> form[key]]

\* lines 327-336
NocSave(r) ==
    /\ reqs[r].pc = "saveNoc"
    /\ nocs' = Append(nocs, NewNoc(r))
    /\ reqs' = [Respond(r, 201) EXCEPT ![r].nocId = Len(nocs) + 1]
    /\ UNCHANGED <<inbox, users, folders, localFiles, cloudFiles, now, nextToken, known>>

NextNoc ==
    \/ \E r \in DOMAIN reqs : ApplyNOC(r)
    \/ \E r \in DOMAIN reqs : NocUpload(r)
    \/ \E r \in DOMAIN reqs : NocSave(r)
    \/ Tick

NocUploadFields == <<"tdc_reg_certificate_upload", "aadhaar_upload", "other_upload">>

\* file maps over any subset of the upload fields, each file under any name
NocFileMaps ==
    UNION {
        {[i \in 1..Cardinality(picked) |->
            [fieldName |-> NocUploadFields[
                 CHOOSE k \in picked : Cardinality({j \in picked : j < k}) = i - 1],
             originalname |-> chosen[i]]] :
         chosen \in [1..Cardinality(picked) -> {Pdf, Txt}]} :
        picked \in SUBSET DOMAIN NocUploadFields}

TextChoices == {<<>>, << <<>> >>, <<Text>>}

NocRequests ==
    {[kind |-> "noc", user |-> 1, files |-> fileBufferMap,
      body |-> Optional("dental_council_name", name) @@ Optional("postal_address", address)] :
        name \in TextChoices, address \in TextChoices, fileBufferMap \in NocFileMaps}

\* one user has registered and is authenticated on every NOC request
InitNoc ==
    /\ inbox \in UNION {[1..n -> NocRequests] : n \in 1..MaxNocRequests}
    /\ reqs = [r \in DOMAIN inbox |-> NewRequest]
    /\ users = <<RegisteredUser(1, "asha@tdc.in", "9000000001")>>
    /\ nocs = <<>>
    /\ folders = {}
    /\ localFiles = {}
    /\ cloudFiles = {}
    /\ now = 0
    /\ nextToken = 1
    /\ known = {}

SpecNoc == InitNoc /\ [][NextNoc]_vars

-----------------------------------------------------------------------------
(* Properties *)

RegisterRequestIds == {r \in DOMAIN inbox : inbox[r].kind = "register"}
NocRequestIds == {r \in DOMAIN inbox : inbox[r].kind = "noc"}
ForgotRequestIds == {r \in DOMAIN reqs : "kind" \in DOMAIN reqs[r] /\ reqs[r].kind = "forgot"}
ResetRequestIds == {r \in DOMAIN reqs : "kind" \in DOMAIN reqs[r] /\ reqs[r].kind = "reset"}

FilesOf(r) == {file \in localFiles \cup cloudFiles : file.req = r}

\* the name ends in ".pdf", in any letter case
EndsInDotPdf(name) ==
    /\ Len(name) >= 4
    /\ name[Len(name) - 3] = "."
    /\ name[Len(name) - 2] \in {"p", "P"}
    /\ name[Len(name) - 1] \in {"d", "D"}
    /\ name[Len(name)] \in {"f", "F"}

\* validation steps 1-4 pass for the form
PassesSteps1To4(form) ==
    /\ \A key \in RequiredFields : key \in DOMAIN form /\ form[key] # <<>>
    /\ \A key \in {"bds_qualification_year", "mds_qualification_year"} :
          key \in DOMAIN form => form[key] \in {<<>>, GoodYear}
    /\ form["regcategory_id"] \in RegCategoryIds
    /\ form["nationality_id"] \in NationalityIds

\* a user stored before request r arrived has r's email or r's mobile number
DuplicateOnArrival(r) ==
    /\ reqs[r].pc # "idle"
    /\ \E i \in 1..reqs[r].storeSize :
          \/ users[i]["email"] = inbox[r].body["email"]
          \/ users[i]["mobile_number"] = inbox[r].body["mobile_number"]

\* C1: no two stored users share an email and no two share a mobile number,
\* whatever the interleaving of the registerUser requests
C1_UniqueEmailAndMobile ==
    \A i, j \in DOMAIN users :
        i # j => /\ users[i]["email"] # users[j]["email"]
                 /\ users[i]["mobile_number"] # users[j]["mobile_number"]

\* two overlapping requests with one email both passed the lookups; one was
\* stored and the other was refused by the save
C1_Witness ==
    \E r1, r2 \in RegisterRequestIds :
        /\ r1 # r2
        /\ inbox[r1].body["email"] = inbox[r2].body["email"]
        /\ reqs[r1].userId # 0
        /\ reqs[r2].storeSize = 0
        /\ reqs[r2].pc = "done" /\ reqs[r2].status = 500 /\ reqs[r2].userId = 0
        /\ "password" \in DOMAIN inbox[r2].body

\* C5: a registerUser request whose email or mobile number is that of a user
\* already stored, and that passes steps 1-4, is answered 409, stores no user
\* and writes or uploads no file
C5_DuplicateIs409 ==
    \A r \in RegisterRequestIds :
        DuplicateOnArrival(r) /\ PassesSteps1To4(inbox[r].body) =>
            /\ reqs[r].userId = 0
            /\ FilesOf(r) = {}
            /\ reqs[r].pc = "done" => reqs[r].status = 409

\* a request with a fresh email and a stored mobile number was answered 409
C5_Witness ==
    \E r \in RegisterRequestIds :
        /\ DuplicateOnArrival(r) /\ PassesSteps1To4(inbox[r].body)
        /\ reqs[r].pc = "done" /\ reqs[r].status = 409
        /\ inbox[r].files # <<>>
        /\ \A i \in DOMAIN users : users[i]["email"] # inbox[r].body["email"]

\* C6: a registerUser request missing any one of the eleven required personal
\* fields is answered 400 at once, stores no user and writes or uploads no file
C6_MissingFieldIs400 ==
    \A r \in RegisterRequestIds :
        LET form == inbox[r].body
        IN  /\ reqs[r].pc # "idle"
            /\ \E key \in {"f_name", "l_name", "father_name", "mother_name", "place",
                            "dob", "category", "address", "pan_number",
                            "aadhaar_number", "regtype"} :
                    key \notin DOMAIN form \/ form[key] = <<>>
            => /\ reqs[r].pc = "done" /\ reqs[r].status = 400
               /\ reqs[r].userId = 0
               /\ FilesOf(r) = {}

\* a request valid in everything but an absent regtype, with a PDF attached,
\* was answered 400
C6_Witness ==
    \E r \in RegisterRequestIds :
        LET form == inbox[r].body
        IN  /\ reqs[r].pc = "done" /\ reqs[r].status = 400
            /\ "regtype" \notin DOMAIN form
            /\ \A key \in RequiredFields \ {"regtype"} : Truthy(form, key)
            /\ form["regcategory_id"] \in RegCategoryIds
            /\ form["nationality_id"] \in NationalityIds
            /\ "password" \in DOMAIN form /\ Len(form["password"]) >= 8
            /\ inbox[r].files = FileBufferMap(<<Pdf>>)

\* the form passes steps 1-4 and 7, and the request was not answered 409
PassesSteps1To7(r) ==
    LET form == inbox[r].body
    IN  /\ PassesSteps1To4(form)
        /\ "password" \in DOMAIN form /\ Len(form["password"]) >= 8
        /\ reqs[r].status # 409

SomeFileIsNotPdf(r) ==
    \E i \in DOMAIN inbox[r].files : ~EndsInDotPdf(inbox[r].files[i].originalname)

\* C7: a registerUser request that passes steps 1-7 and submits a file whose
\* name does not end in .pdf, at any position, is answered 400 and stores no user
C7_NonPdfIs400 ==
    \A r \in RegisterRequestIds :
        SomeFileIsNotPdf(r) =>
            /\ reqs[r].userId = 0
            /\ reqs[r].pc = "done" /\ PassesSteps1To7(r) => reqs[r].status = 400

\* the upload the request was waiting for did not reach the object storage
UploadRejected(r) ==
    /\ reqs[r].idx \in DOMAIN reqs[r].saved
    /\ reqs[r].saved[reqs[r].idx] \notin cloudFiles

\* C7, amended: such a request stores no user and is answered 400, or 500 when
\* the upload of a PDF that precedes the non-PDF file is rejected
C7_NonPdfIs400UnlessUploadRejected ==
    \A r \in RegisterRequestIds :
        SomeFileIsNotPdf(r) =>
            /\ reqs[r].userId = 0
            /\ reqs[r].pc = "done" /\ PassesSteps1To7(r) =>
                  \/ reqs[r].status = 400
                  \/ reqs[r].status = 500 /\ UploadRejected(r)

\* the non-PDF came second: the first file was written and uploaded, then 400
C7_Witness ==
    \E r \in RegisterRequestIds :
        /\ SomeFileIsNotPdf(r) /\ PassesSteps1To7(r)
        /\ reqs[r].pc = "done" /\ reqs[r].status = 400
        /\ \E file \in cloudFiles : file.req = r
        /\ users = <<>>

\* the URLs stored in user and NOC documents
StoredUrls ==
    UNION {{users[i][key] :
               key \in {UploadFields[k] : k \in DOMAIN UploadFields} \cap DOMAIN users[i]} :
           i \in DOMAIN users}
    \cup UNION {{nocs[i][key] :
                    key \in {NocUploadFields[k] : k \in DOMAIN NocUploadFields}
                             \cap DOMAIN nocs[i]} :
                i \in DOMAIN nocs}

\* C8: every file written locally or uploaded, by registerUser or by applyNOC,
\* was submitted under a name with the extension .pdf, in any letter case, and
\* so was every file whose URL a user or NOC document stores
C8_OnlyPdfStored ==
    \A file \in localFiles \cup cloudFiles \cup StoredUrls :
        EndsInDotPdf(file.originalname)

\* C9: an applyNOC request lacking tdc_reg_certificate_upload or aadhaar_upload,
\* or dental_council_name or postal_address, is answered 400 before any upload
\* or local write and without an NOC record
C9_MissingNocInputIs400 ==
    \A r \in NocRequestIds :
        LET form == inbox[r].body
            fields == {inbox[r].files[i].fieldName : i \in DOMAIN inbox[r].files}
        IN  \/ "tdc_reg_certificate_upload" \notin fields
            \/ "aadhaar_upload" \notin fields
            \/ \E key \in {"dental_council_name", "postal_address"} :
                  key \notin DOMAIN form \/ form[key] = <<>>
            => /\ reqs[r].pc \in {"idle", "done"}
               /\ reqs[r].pc = "done" => reqs[r].status = 400
               /\ FilesOf(r) = {}
               /\ reqs[r].nocId = 0

\* a request with both text fields and the certificate, but no aadhaar_upload,
\* was answered 400
C9_Witness ==
    \E r \in NocRequestIds :
        LET form == inbox[r].body
            fields == {inbox[r].files[i].fieldName : i \in DOMAIN inbox[r].files}
        IN  /\ reqs[r].pc = "done" /\ reqs[r].status = 400
            /\ fields = {"tdc_reg_certificate_upload", "other_upload"}
            /\ Truthy(form, "dental_council_name") /\ Truthy(form, "postal_address")

\* C10: a registerUser request is answered 201 exactly when it stored a user,
\* also when the welcome mail fails
C10_Status201IffStored ==
    \A r \in RegisterRequestIds :
        reqs[r].pc = "done" => (reqs[r].status = 201 <=> reqs[r].userId # 0)

\* C2: of the resetPassword requests that present one token, at most one is
\* ever answered 200, in any interleaving
C2_TokenRedeemedOnce ==
    \A r1, r2 \in ResetRequestIds :
        /\ r1 # r2
        /\ reqs[r1].token = reqs[r2].token
        /\ reqs[r1].status = 200
        => reqs[r2].status # 200

FifteenMinutes == 15 * 60 * 1000

\* the lookup of resetPassword request r returns in this step
LooksUpToken(r) ==
    reqs[r].kind = "reset" /\ reqs[r].pc = "findUser" /\ reqs'[r].pc # "findUser"

\* C3: a resetPassword that reads the clock later than the expiry of the token
\* it presents, which is the instant forgotPassword issued the token plus 15
\* minutes, never finds the user: it is answered 400 and saves nothing, also
\* when the token hashes to the stored hash
C3_ExpiredTokenIs400 ==
    \A f \in ForgotRequestIds, r \in ResetRequestIds :
        /\ reqs[f].token # NoToken
        /\ reqs[r].token = reqs[f].token
        /\ reqs[r].at > reqs[f].at + FifteenMinutes
        => /\ reqs[r].pc \in {"findUser", "done"}
           /\ reqs[r].pc = "done" => reqs[r].status = 400

HasNoResetToken(doc) ==
    "resetPasswordToken" \notin DOMAIN doc /\ "resetPasswordExpire" \notin DOMAIN doc

\* forgotPassword request f has, in this step, its sendEmail settle: the link is
\* answered or the rollback is started
SendSettles(f) == reqs[f].pc = "sendEmail" /\ reqs'[f].pc # "sendEmail"

\* forgotPassword request f has, in this step, its rollback land and answers
RollbackLands(f) == reqs[f].pc = "clearToken" /\ reqs'[f].pc # "clearToken"

\* a send failure is answered 500 and at that answer the user's stored hash and
\* expiry are both cleared
SendFailureIs500AndClears ==
    \A f \in DOMAIN reqs :
        /\ SendSettles(f) =>
              \/ reqs'[f].pc = "done" /\ reqs'[f].status = 200
              \/ reqs'[f].pc = "clearToken"
        /\ RollbackLands(f) =>
              /\ reqs'[f].pc = "done" /\ reqs'[f].status = 500
              /\ HasNoResetToken(users'[reqs[f].userId])

\* C4: a forgotPassword whose mail fails is answered 500; when it completes the
\* user's stored hash and expiry are both cleared; no resetPassword presenting
\* its token is ever answered 200
C4_SendFailureClearsToken ==
    /\ [][SendFailureIs500AndClears]_vars
    /\ [](\A f \in ForgotRequestIds, r \in ResetRequestIds :
             reqs[f].status = 500 /\ reqs[r].token = reqs[f].token
                => reqs[r].status # 200)

\* a forgotPassword answered 500 drew the token
DrawnByFailedForgot(token) ==
    \E f \in ForgotRequestIds :
        reqs[f].pc = "done" /\ reqs[f].status = 500 /\ reqs[f].token = token

\* C4, amended: a forgotPassword whose mail fails is answered 500; when it
\* completes the user's stored hash and expiry are both cleared; from then on a
\* resetPassword whose lookup presents its token is answered 400 and changes
\* nothing
C4_SendFailureClearsTokenFromThenOn ==
    [][/\ SendFailureIs500AndClears
       /\ \A r \in DOMAIN reqs :
             LooksUpToken(r) /\ DrawnByFailedForgot(reqs[r].token) =>
                 /\ reqs'[r].pc = "done" /\ reqs'[r].status = 400
                 /\ users' = users]_vars

\* a forgotPassword was answered 500 and a resetPassword that presented its token
\* inside the window was answered 400
C4_Witness ==
    \E f \in ForgotRequestIds, r \in ResetRequestIds :
        /\ reqs[f].pc = "done" /\ reqs[f].status = 500
        /\ reqs[r].token = reqs[f].token
        /\ reqs[r].pc = "done" /\ reqs[r].status = 400
        /\ reqs[r].at < FifteenMinutes

=============================================================================
